---------------------------- MODULE Spec2Model ----------------------------
(***************************************************************************)
(* Model of src/main.py: the rule-based prompt enhancer (enhance_prompt),  *)
(* the POST /generate-video handler (generate_video) with the external     *)
(* text-to-video provider as its environment, and GET /health.             *)
(*                                                                         *)
(* Python str values are TLA+ strings; Len, SubSeq and \o act on them as   *)
(* on sequences of characters.  Python bytes values are sequences of       *)
(* integers in 0..255.                                                     *)
(***************************************************************************)
EXTENDS Integers, Sequences, FiniteSets, TLC

VARIABLES
    HF_TOKEN,      \* module global read from the environment at import
    client,        \* TRUE iff the module global `client` was bound at import
    pc,            \* per request: "idle", "calling" (blocked in the provider) or "done"
    prompt,        \* per request: the raw form field
    locals,        \* per request: original_prompt and enhanced_prompt of the handler
    calls,         \* per request: the provider invocations made, in order
    result,        \* per request: what the provider call produced
    response,      \* per request: the HTTP responses sent, in order
    logged,        \* per request: the diagnostic branches taken in the except block
    health,        \* the last answer of GET /health
    enhPc,         \* "idle" or "returned": a direct call of enhance_prompt
    enhIn,         \* its argument
    enhOut         \* its return value

vars == <<HF_TOKEN, client, pc, prompt, locals, calls, result, response, logged,
          health, enhPc, enhIn, enhOut>>

reqVars == <<pc, prompt, locals, calls, result, response, logged>>
enhVars == <<enhPc, enhIn, enhOut>>

-----------------------------------------------------------------------------
(* Bounds *)

NumReq == 2        \* concurrent requests
MaxBytes == 3      \* longest enumerated provider payload
MaxWords == 2      \* words in an enumerated enhance_prompt argument

Requests == 1..NumReq

-----------------------------------------------------------------------------
(* Strings *)

Char(s, i) == SubSeq(s, i, i)

\* str.lower() on one character: the ASCII capitals map to their small letters
LowerMap ==
    [A |-> "a", B |-> "b", C |-> "c", D |-> "d", E |-> "e", F |-> "f", G |-> "g",
     H |-> "h", I |-> "i", J |-> "j", K |-> "k", L |-> "l", M |-> "m", N |-> "n",
     O |-> "o", P |-> "p", Q |-> "q", R |-> "r", S |-> "s", T |-> "t", U |-> "u",
     V |-> "v", W |-> "w", X |-> "x", Y |-> "y", Z |-> "z"]

LowerChar(c) == IF c \in DOMAIN LowerMap THEN LowerMap[c] ELSE c

\* the characters str.strip() removes
IsSpace(c) == c \in {" ", "\t", "\n", "\r", "\f"}

\* str.strip(): drops leading and trailing whitespace, keeps the rest as is
Strip(s) ==
    IF \A i \in 1..Len(s) : IsSpace(Char(s, i)) THEN ""
    ELSE LET first == CHOOSE i \in 1..Len(s) :
                          /\ ~IsSpace(Char(s, i))
                          /\ \A j \in 1..(i - 1) : IsSpace(Char(s, j))
             last  == CHOOSE i \in 1..Len(s) :
                          /\ ~IsSpace(Char(s, i))
                          /\ \A j \in (i + 1)..Len(s) : IsSpace(Char(s, j))
         IN  SubSeq(s, first, last)

\* Python's `keyword in text.lower()`: some window of text, lower-cased
\* character by character, equals keyword
InLower(keyword, text) ==
    \E i \in 1..(Len(text) - Len(keyword) + 1) :
        \A k \in 1..Len(keyword) :
            LowerChar(Char(text, i + k - 1)) = Char(keyword, k)

RECURSIVE Repeat(_, _)
\* Python's s * n, by halves
Repeat(s, n) ==
    IF n <= 0 THEN ""
    ELSE IF n = 1 THEN s
    ELSE Repeat(s, n \div 2) \o Repeat(s, n - n \div 2)

-----------------------------------------------------------------------------
(* enhance_prompt *)

enhancement_database ==
    [cinematic |-> "cinematic lighting, professional cinematography, high quality, smooth motion",
     nature    |-> "beautiful natural scenery, natural lighting, peaceful atmosphere, HD quality",
     action    |-> "dynamic movement, exciting motion, fast-paced action, high energy",
     portrait  |-> "detailed facial features, realistic rendering, good lighting, clear focus",
     urban     |-> "modern city atmosphere, urban environment, vibrant details, contemporary style",
     technical |-> "5 seconds duration, HD quality, smooth transitions, professional grade"]

PortraitKeywords == <<"person", "man", "woman", "people", "human", "character">>
ActionKeywords   == <<"run", "jump", "fast", "action", "dance", "sport", "racing">>
NatureKeywords   == <<"forest", "ocean", "mountain", "nature", "tree", "flower", "landscape">>
UrbanKeywords    == <<"city", "street", "building", "car", "urban", "downtown">>

\* any(keyword in user_prompt.lower() for keyword in keywords)
AnyKeyword(user_prompt, keywords) ==
    \E i \in 1..Len(keywords) : InLower(keywords[i], user_prompt)

\* DetectCategory with the action test moved ahead of the portrait test
DetectCategoryActionFirst(user_prompt) ==
    IF AnyKeyword(user_prompt, ActionKeywords) THEN "action"
    ELSE IF AnyKeyword(user_prompt, PortraitKeywords) THEN "portrait"
    ELSE IF AnyKeyword(user_prompt, NatureKeywords) THEN "nature"
    ELSE IF AnyKeyword(user_prompt, UrbanKeywords) THEN "urban"
    ELSE "cinematic"

\* the if/elif chain of enhance_prompt
DetectCategory(user_prompt) ==
    IF AnyKeyword(user_prompt, PortraitKeywords) THEN "portrait"
    ELSE IF AnyKeyword(user_prompt, ActionKeywords) THEN "action"
    ELSE IF AnyKeyword(user_prompt, NatureKeywords) THEN "nature"
    ELSE IF AnyKeyword(user_prompt, UrbanKeywords) THEN "urban"
    ELSE "cinematic"

\* enhance_prompt appending to the argument as given, without strip()
enhance_promptNoStrip(user_prompt) ==
    user_prompt
        \o ", " \o enhancement_database[DetectCategory(user_prompt)]
        \o ", " \o enhancement_database["technical"]

enhance_prompt(user_prompt) ==
    Strip(user_prompt)
        \o ", " \o enhancement_database[DetectCategory(user_prompt)]
        \o ", " \o enhancement_database["technical"]

-----------------------------------------------------------------------------
(* base64.b64encode(...).decode('utf-8') *)

B64Alphabet == "ABCDEFGHIJKLMNOPQRSTUVWXYZabcdefghijklmnopqrstuvwxyz0123456789+/"

B64Char(n) == Char(B64Alphabet, n + 1)

RECURSIVE b64encode(_)

\* b64encode that leaves out the "=" padding of a short last group
b64encodeNoPad(bs) ==
    IF Len(bs) = 0 THEN ""
    ELSE IF Len(bs) = 1 THEN
        B64Char(bs[1] \div 4) \o B64Char((bs[1] % 4) * 16)
    ELSE IF Len(bs) = 2 THEN
        B64Char(bs[1] \div 4)
            \o B64Char((bs[1] % 4) * 16 + bs[2] \div 16)
            \o B64Char((bs[2] % 16) * 4)
    ELSE
        B64Char(bs[1] \div 4)
            \o B64Char((bs[1] % 4) * 16 + bs[2] \div 16)
            \o B64Char((bs[2] % 16) * 4 + bs[3] \div 64)
            \o B64Char(bs[3] % 64)
            \o b64encode(SubSeq(bs, 4, Len(bs)))

b64encode(bs) ==
    IF Len(bs) = 0 THEN ""
    ELSE IF Len(bs) = 1 THEN
        B64Char(bs[1] \div 4) \o B64Char((bs[1] % 4) * 16) \o "=="
    ELSE IF Len(bs) = 2 THEN
        B64Char(bs[1] \div 4)
            \o B64Char((bs[1] % 4) * 16 + bs[2] \div 16)
            \o B64Char((bs[2] % 16) * 4) \o "="
    ELSE
        B64Char(bs[1] \div 4)
            \o B64Char((bs[1] % 4) * 16 + bs[2] \div 16)
            \o B64Char((bs[2] % 16) * 4 + bs[3] \div 64)
            \o B64Char(bs[3] % 64)
            \o b64encode(SubSeq(bs, 4, Len(bs)))

-----------------------------------------------------------------------------
(* generate_video *)

MinPromptLen == 3
MaxPromptLen == 200

\* os.getenv("HF_TOKEN"): None, or the string found in the environment
NoneValue == [isNone |-> TRUE, str |-> ""]
StrValue(s) == [isNone |-> FALSE, str |-> s]

\* Python truthiness of an optional string: None and "" are falsy
Truthy(v) == ~v.isNone /\ v.str # ""

\* raise HTTPException(status_code=code, detail=detail)
HTTPException(code, detail) == [code |-> code, json |-> [detail |-> detail]]

\* the dict returned on success (generation_timestamp, the wall-clock time of
\* the call, is left out)
response_data(original_prompt, enhanced_prompt, video_bytes) ==
    [code |-> 200,
     json |-> [status              |-> "success",
               video_data          |-> "data:video/mp4;base64," \o b64encode(video_bytes),
               enhanced_prompt     |-> enhanced_prompt,
               original_prompt     |-> original_prompt,
               model_used          |-> "Wan-AI/Wan2.2-TI2V-5B",
               video_size_bytes    |-> Len(video_bytes),
               enhancement_applied |-> TRUE]]

\* the if/elif chain of the except block: which diagnostic line is logged
Classify(error_message) ==
    IF InLower("rate limit", error_message) THEN "rate limit"
    ELSE IF InLower("quota", error_message) THEN "quota"
    ELSE IF InLower("unauthorized", error_message) THEN "unauthorized"
    ELSE "none"

\* ExceptBlock answering 429 when the message is classified as a rate limit
ExceptBlockRateLimit429(error_message) ==
    [response |-> HTTPException(IF Classify(error_message) = "rate limit" THEN 429 ELSE 500,
                                "Video generation failed: " \o error_message),
     logged   |-> Classify(error_message)]

\* except Exception as e: ... raise HTTPException(500, ...)
ExceptBlock(error_message) ==
    [response |-> HTTPException(500, "Video generation failed: " \o error_message),
     logged   |-> Classify(error_message)]

\* Entry with the length checks ahead of the credential check
EntryValidationFirst(token, clientBound, p) ==
    IF p = "" \/ Len(Strip(p)) < MinPromptLen THEN
        [kind |-> "respond", logged |-> "none",
         response |-> HTTPException(400, "Prompt must be at least 3 characters long")]
    ELSE IF Len(p) > MaxPromptLen THEN
        [kind |-> "respond", logged |-> "none",
         response |-> HTTPException(400, "Prompt must be less than 200 characters")]
    ELSE IF ~Truthy(token) THEN
        [kind |-> "respond", logged |-> "none",
         response |-> HTTPException(500,
                        "API token not configured - please contact administrator")]
    ELSE IF ~clientBound THEN
        \* the global `client` was never bound: NameError inside the try block
        LET e == ExceptBlock("name 'client' is not defined")
        IN  [kind |-> "respond", logged |-> e.logged, response |-> e.response]
    ELSE
        LET original_prompt == Strip(p)
            enhanced_prompt == enhance_prompt(original_prompt)
        IN  [kind |-> "call",
             original_prompt |-> original_prompt,
             enhanced_prompt |-> enhanced_prompt,
             text  |-> enhanced_prompt,
             model |-> "Wan-AI/Wan2.2-TI2V-5B"]

\* Entry without the credential check
EntryNoTokenCheck(token, clientBound, p) ==
    IF p = "" \/ Len(Strip(p)) < MinPromptLen THEN
        [kind |-> "respond", logged |-> "none",
         response |-> HTTPException(400, "Prompt must be at least 3 characters long")]
    ELSE IF Len(p) > MaxPromptLen THEN
        [kind |-> "respond", logged |-> "none",
         response |-> HTTPException(400, "Prompt must be less than 200 characters")]
    ELSE IF ~clientBound THEN
        \* the global `client` was never bound: NameError inside the try block
        LET e == ExceptBlock("name 'client' is not defined")
        IN  [kind |-> "respond", logged |-> e.logged, response |-> e.response]
    ELSE
        LET original_prompt == Strip(p)
            enhanced_prompt == enhance_prompt(original_prompt)
        IN  [kind |-> "call",
             original_prompt |-> original_prompt,
             enhanced_prompt |-> enhanced_prompt,
             text  |-> enhanced_prompt,
             model |-> "Wan-AI/Wan2.2-TI2V-5B"]

\* Entry handing the trimmed prompt, not the enhanced one, to the provider
EntryPassesOriginal(token, clientBound, p) ==
    IF ~Truthy(token) THEN
        [kind |-> "respond", logged |-> "none",
         response |-> HTTPException(500,
                        "API token not configured - please contact administrator")]
    ELSE IF p = "" \/ Len(Strip(p)) < MinPromptLen THEN
        [kind |-> "respond", logged |-> "none",
         response |-> HTTPException(400, "Prompt must be at least 3 characters long")]
    ELSE IF Len(p) > MaxPromptLen THEN
        [kind |-> "respond", logged |-> "none",
         response |-> HTTPException(400, "Prompt must be less than 200 characters")]
    ELSE IF ~clientBound THEN
        \* the global `client` was never bound: NameError inside the try block
        LET e == ExceptBlock("name 'client' is not defined")
        IN  [kind |-> "respond", logged |-> e.logged, response |-> e.response]
    ELSE
        LET original_prompt == Strip(p)
            enhanced_prompt == enhance_prompt(original_prompt)
        IN  [kind |-> "call",
             original_prompt |-> original_prompt,
             enhanced_prompt |-> enhanced_prompt,
             text  |-> original_prompt,
             model |-> "Wan-AI/Wan2.2-TI2V-5B"]

\* generate_video from its entry up to the provider call: either the request
\* is answered at once, or client.text_to_video is entered
Entry(token, clientBound, p) ==
    IF ~Truthy(token) THEN
        [kind |-> "respond", logged |-> "none",
         response |-> HTTPException(500,
                        "API token not configured - please contact administrator")]
    ELSE IF p = "" \/ Len(Strip(p)) < MinPromptLen THEN
        [kind |-> "respond", logged |-> "none",
         response |-> HTTPException(400, "Prompt must be at least 3 characters long")]
    ELSE IF Len(p) > MaxPromptLen THEN
        [kind |-> "respond", logged |-> "none",
         response |-> HTTPException(400, "Prompt must be less than 200 characters")]
    ELSE IF ~clientBound THEN
        \* the global `client` was never bound: NameError inside the try block
        LET e == ExceptBlock("name 'client' is not defined")
        IN  [kind |-> "respond", logged |-> e.logged, response |-> e.response]
    ELSE
        LET original_prompt == Strip(p)
            enhanced_prompt == enhance_prompt(original_prompt)
        IN  [kind |-> "call",
             original_prompt |-> original_prompt,
             enhanced_prompt |-> enhanced_prompt,
             text  |-> enhanced_prompt,
             model |-> "Wan-AI/Wan2.2-TI2V-5B"]

\* AfterReturn without the `if not video_bytes` test
AfterReturnNoCheck(original_prompt, enhanced_prompt, video_bytes) ==
    [response |-> response_data(original_prompt, enhanced_prompt, video_bytes.bytes),
     logged   |-> "none"]

\* generate_video after client.text_to_video returned video_bytes
\* (absent |-> TRUE stands for None)
AfterReturn(original_prompt, enhanced_prompt, video_bytes) ==
    IF video_bytes.absent \/ Len(video_bytes.bytes) = 0
    THEN ExceptBlock("Model returned empty response")
    ELSE [response |-> response_data(original_prompt, enhanced_prompt, video_bytes.bytes),
          logged   |-> "none"]

\* generate_video after client.text_to_video raised an exception e with
\* str(e) = error_message
AfterRaise(error_message) == ExceptBlock(error_message)

-----------------------------------------------------------------------------
(* Inputs *)

HandlerPrompts ==
    {"", "hi", " hi ", "abc", "  A Woman in the forest ",
     "street" \o Repeat("x", MaxPromptLen - 6),
     Repeat("x", MaxPromptLen + 1),
     Repeat(" ", MaxPromptLen + 1)}

\* provider payloads: the first k bytes of two fixed byte patterns
PayloadSeeds == {0, 255}
Payloads ==
    {[i \in 1..k |-> (seed + 83 * i) % 256] : k \in 0..MaxBytes, seed \in PayloadSeeds}

ProviderReturns ==
    {[absent |-> TRUE, bytes |-> <<>>]}
        \cup {[absent |-> FALSE, bytes |-> b] : b \in Payloads}

ProviderErrors ==
    {"Rate limit exceeded", "Monthly quota exhausted", "401 Unauthorized",
     "Read timed out"}

EnvTokens == {NoneValue, StrValue(""), StrValue("hf_secret")}

Words == <<"a spaceship in orbit", "Person", "forest", "run", "street", "city",
           "woMAN", "cat">>

RECURSIVE Join(_)
Join(ws) == IF Len(ws) = 0 THEN ""
            ELSE IF Len(ws) = 1 THEN Words[ws[1]]
            ELSE Words[ws[1]] \o " " \o Join(Tail(ws))

EnhanceInputs ==
    {lead \o Join(ws) \o trail :
        lead \in {"", " ", "\t\n"}, trail \in {"", "  "},
        ws \in UNION {[1..k -> 1..Len(Words)] : k \in 0..MaxWords}}

\* Entry tabulated over the enumerated inputs
EntryOf ==
    [t \in EnvTokens, c \in BOOLEAN, p \in HandlerPrompts |-> Entry(t, c, p)] @@ <<>>

NoLocals == [original_prompt |-> "", enhanced_prompt |-> ""]

-----------------------------------------------------------------------------
(* State machine *)

Init ==
    /\ HF_TOKEN \in EnvTokens
    /\ client \in BOOLEAN
    /\ pc = [r \in Requests |-> "idle"]
    /\ prompt = [r \in Requests |-> ""]
    /\ locals = [r \in Requests |-> NoLocals]
    /\ calls = [r \in Requests |-> <<>>]
    /\ result = [r \in Requests |-> <<>>]
    /\ response = [r \in Requests |-> <<>>]
    /\ logged = [r \in Requests |-> <<>>]
    /\ health = {}
    /\ enhPc = "idle"
    /\ enhIn = ""
    /\ enhOut = ""

\* Receive keeping original_prompt and enhanced_prompt in one place shared by
\* all requests
ReceiveSharedLocals(r, p) ==
    /\ pc[r] = "idle"
    /\ prompt' = [prompt EXCEPT ![r] = p]
    /\ LET o == EntryOf[HF_TOKEN, client, p]
       IN  IF o.kind = "call"
           THEN /\ pc' = [pc EXCEPT ![r] = "calling"]
                /\ locals' = [q \in Requests |->
                                  [original_prompt |-> o.original_prompt,
                                   enhanced_prompt |-> o.enhanced_prompt]]
                /\ calls' = [calls EXCEPT ![r] = Append(@, [text |-> o.text, model |-> o.model])]
                /\ UNCHANGED <<response, logged>>
           ELSE /\ pc' = [pc EXCEPT ![r] = "done"]
                /\ response' = [response EXCEPT ![r] = Append(@, o.response)]
                /\ logged' = [logged EXCEPT ![r] = Append(@, o.logged)]
                /\ UNCHANGED <<locals, calls>>
    /\ UNCHANGED <<HF_TOKEN, client, result, health, enhVars>>

\* POST /generate-video arrives with form field p and runs up to the provider call
Receive(r, p) ==
    /\ pc[r] = "idle"
    /\ prompt' = [prompt EXCEPT ![r] = p]
    /\ LET o == EntryOf[HF_TOKEN, client, p]
       IN  IF o.kind = "call"
           THEN /\ pc' = [pc EXCEPT ![r] = "calling"]
                /\ locals' = [locals EXCEPT ![r] =
                                  [original_prompt |-> o.original_prompt,
                                   enhanced_prompt |-> o.enhanced_prompt]]
                /\ calls' = [calls EXCEPT ![r] = Append(@, [text |-> o.text, model |-> o.model])]
                /\ UNCHANGED <<response, logged>>
           ELSE /\ pc' = [pc EXCEPT ![r] = "done"]
                /\ response' = [response EXCEPT ![r] = Append(@, o.response)]
                /\ logged' = [logged EXCEPT ![r] = Append(@, o.logged)]
                /\ UNCHANGED <<locals, calls>>
    /\ UNCHANGED <<HF_TOKEN, client, result, health, enhVars>>

\* client.text_to_video returns video_bytes and the handler runs to its end
ProviderReturn(r, video_bytes) ==
    /\ pc[r] = "calling"
    /\ LET o == AfterReturn(locals[r].original_prompt, locals[r].enhanced_prompt, video_bytes)
       IN  /\ response' = [response EXCEPT ![r] = Append(@, o.response)]
           /\ logged' = [logged EXCEPT ![r] = Append(@, o.logged)]
    /\ result' = [result EXCEPT ![r] = Append(@, [kind |-> "return", value |-> video_bytes])]
    /\ pc' = [pc EXCEPT ![r] = "done"]
    /\ UNCHANGED <<HF_TOKEN, client, prompt, locals, calls, health, enhVars>>

\* ProviderRaise calling the provider once more after a first failure
ProviderRaiseRetry(r, error_message) ==
    /\ pc[r] = "calling"
    /\ IF Len(calls[r]) < 2
       THEN /\ calls' = [calls EXCEPT ![r] = Append(@, @[1])]
            /\ UNCHANGED <<pc, response, logged, result>>
       ELSE /\ LET o == AfterRaise(error_message)
               IN  /\ response' = [response EXCEPT ![r] = Append(@, o.response)]
                   /\ logged' = [logged EXCEPT ![r] = Append(@, o.logged)]
            /\ result' = [result EXCEPT ![r] =
                             Append(@, [kind |-> "raise", value |-> error_message])]
            /\ pc' = [pc EXCEPT ![r] = "done"]
            /\ UNCHANGED calls
    /\ UNCHANGED <<HF_TOKEN, client, prompt, locals, health, enhVars>>

\* client.text_to_video raises and the handler runs to its end
ProviderRaise(r, error_message) ==
    /\ pc[r] = "calling"
    /\ LET o == AfterRaise(error_message)
       IN  /\ response' = [response EXCEPT ![r] = Append(@, o.response)]
           /\ logged' = [logged EXCEPT ![r] = Append(@, o.logged)]
    /\ result' = [result EXCEPT ![r] = Append(@, [kind |-> "raise", value |-> error_message])]
    /\ pc' = [pc EXCEPT ![r] = "done"]
    /\ UNCHANGED <<HF_TOKEN, client, prompt, locals, calls, health, enhVars>>

\* the request's values are discarded after the response
Discard(r) ==
    /\ pc[r] = "done"
    /\ pc' = [pc EXCEPT ![r] = "idle"]
    /\ prompt' = [prompt EXCEPT ![r] = ""]
    /\ locals' = [locals EXCEPT ![r] = NoLocals]
    /\ calls' = [calls EXCEPT ![r] = <<>>]
    /\ result' = [result EXCEPT ![r] = <<>>]
    /\ response' = [response EXCEPT ![r] = <<>>]
    /\ logged' = [logged EXCEPT ![r] = <<>>]
    /\ UNCHANGED <<HF_TOKEN, client, health, enhVars>>

\* GET /health (the timestamp field is left out)
health_check ==
    /\ health' = {[status         |-> "healthy",
                   service        |-> "Peppo AI Video Generator",
                   version        |-> "1.0.0",
                   api_configured |-> Truthy(HF_TOKEN),
                   features       |-> <<"Text-to-Video", "RAG Enhancement", "Download Support">>]}
    /\ UNCHANGED <<HF_TOKEN, client, reqVars, enhVars>>

Next ==
    \/ \E r \in Requests, p \in HandlerPrompts : Receive(r, p)
    \/ \E r \in Requests, b \in ProviderReturns : ProviderReturn(r, b)
    \/ \E r \in Requests, m \in ProviderErrors : ProviderRaise(r, m)
    \/ \E r \in Requests : Discard(r)
    \/ health_check

Spec == Init /\ [][Next]_vars

\* a direct call of the pure function enhance_prompt
EnhanceCall(p) ==
    /\ enhPc = "idle"
    /\ enhPc' = "returned"
    /\ enhIn' = p
    /\ enhOut' = enhance_prompt(p)
    /\ UNCHANGED <<HF_TOKEN, client, reqVars, health>>

\* the caller drops the returned value
EnhanceForget ==
    /\ enhPc = "returned"
    /\ enhPc' = "idle"
    /\ enhIn' = ""
    /\ enhOut' = ""
    /\ UNCHANGED <<HF_TOKEN, client, reqVars, health>>

NextEnhance ==
    \/ \E p \in EnhanceInputs : EnhanceCall(p)
    \/ EnhanceForget

SpecEnhance == Init /\ [][NextEnhance]_vars

-----------------------------------------------------------------------------
(* Properties *)

HasPrefix(s, pre) == Len(s) >= Len(pre) /\ SubSeq(s, 1, Len(pre)) = pre
HasSuffix(s, suf) == Len(s) >= Len(suf) /\ SubSeq(s, Len(s) - Len(suf) + 1, Len(s)) = suf
Contains(part, s) ==
    \E i \in 1..(Len(s) - Len(part) + 1) : SubSeq(s, i, i + Len(part) - 1) = part

ModelId == "Wan-AI/Wan2.2-TI2V-5B"
DataUriPrefix == "data:video/mp4;base64,"
TechnicalSuffix == "5 seconds duration, HD quality, smooth transitions, professional grade"

\* the trimmed form and the enhanced form of each enumerated prompt
TrimmedOf == [p \in HandlerPrompts |-> Strip(p)] @@ <<>>
EnhancedOf == [p \in HandlerPrompts |-> enhance_prompt(Strip(p))] @@ <<>>

TrimmedTooShort(p) == Len(TrimmedOf[p]) < 3
RawTooLong(p) == Len(p) > 200
ValidPrompt(p) == ~TrimmedTooShort(p) /\ ~RawTooLong(p)
Configured == ~HF_TOKEN.isNone /\ HF_TOKEN.str # ""

Done(r) == pc[r] = "done" /\ Len(response[r]) >= 1
Answer(r) == response[r][1]
IsError(resp) == DOMAIN resp.json = {"detail"}
IsSuccess(resp) == "status" \in DOMAIN resp.json /\ resp.json.status = "success"
LengthRelated(resp) ==
    /\ IsError(resp)
    /\ HasPrefix(resp.json.detail, "Prompt must be")
    /\ HasSuffix(resp.json.detail, "characters") \/ HasSuffix(resp.json.detail, "characters long")
ConfigurationRelated(resp) ==
    IsError(resp) /\ Contains("not configured", resp.json.detail)

\* what the provider gave request r
Returned(r) == Len(result[r]) = 1 /\ result[r][1].kind = "return"
Raised(r) == Len(result[r]) = 1 /\ result[r][1].kind = "raise"
ReturnedBytes(r) ==
    Returned(r) /\ ~result[r][1].value.absent /\ Len(result[r][1].value.bytes) >= 1
ReturnedNothing(r) ==
    Returned(r) /\ (result[r][1].value.absent \/ Len(result[r][1].value.bytes) = 0)

\* base64 decoding: four characters give three bytes; "=" marks a short last group
B64Index(c) == CHOOSE n \in 0..63 : Char(B64Alphabet, n + 1) = c
IsB64Char(c) == \E n \in 0..63 : Char(B64Alphabet, n + 1) = c

RECURSIVE B64Decode(_)
B64Decode(s) ==
    IF Len(s) = 0 THEN <<>>
    ELSE IF Len(s) < 4 \/ ~IsB64Char(Char(s, 1)) \/ ~IsB64Char(Char(s, 2)) THEN <<-1>>
    ELSE LET a == B64Index(Char(s, 1))
             b == B64Index(Char(s, 2))
         IN  IF SubSeq(s, 3, 4) = "==" /\ Len(s) = 4 THEN
                 <<a * 4 + b \div 16>>
             ELSE IF ~IsB64Char(Char(s, 3)) THEN <<-1>>
             ELSE IF Char(s, 4) = "=" /\ Len(s) = 4 THEN
                 <<a * 4 + b \div 16, (b % 16) * 16 + B64Index(Char(s, 3)) \div 4>>
             ELSE IF ~IsB64Char(Char(s, 4)) THEN <<-1>>
             ELSE <<a * 4 + b \div 16,
                    (b % 16) * 16 + B64Index(Char(s, 3)) \div 4,
                    (B64Index(Char(s, 3)) % 4) * 64 + B64Index(Char(s, 4))>>
                      \o B64Decode(SubSeq(s, 5, Len(s)))

\* C1 as stated: every answered request whose prompt has trimmed length below 3
\* or raw length above 200 got HTTP 400 with a length-related detail, whether
\* or not a credential is configured.
C1_LengthErrorsRegardlessOfCredential ==
    \A r \in Requests :
        Done(r) /\ (TrimmedTooShort(prompt[r]) \/ RawTooLong(prompt[r]))
            => Answer(r).code = 400 /\ LengthRelated(Answer(r))

\* C1 amended: the checks run in the order credential (500), trimmed length
\* below 3 (400), raw length above 200 (400); a prompt that is too short or too
\* long gets the 400 length message exactly when a credential is configured,
\* and the 500 configuration message otherwise.
C1_CredentialThenLengthChecks ==
    \A r \in Requests :
        Done(r) =>
            /\ ~Configured
                 => Answer(r).code = 500 /\ ConfigurationRelated(Answer(r))
            /\ Configured /\ TrimmedTooShort(prompt[r])
                 => /\ Answer(r).code = 400
                    /\ LengthRelated(Answer(r))
                    /\ Answer(r).json.detail = "Prompt must be at least 3 characters long"
            /\ Configured /\ ~TrimmedTooShort(prompt[r]) /\ RawTooLong(prompt[r])
                 => /\ Answer(r).code = 400
                    /\ LengthRelated(Answer(r))
                    /\ Answer(r).json.detail = "Prompt must be less than 200 characters"

C1_Witness ==
    /\ Configured
    /\ \E r1, r2 \in Requests :
        /\ Done(r1) /\ prompt[r1] = "hi" /\ Answer(r1).code = 400
        /\ Done(r2) /\ Len(prompt[r2]) = 201 /\ ~TrimmedTooShort(prompt[r2])
        /\ Answer(r2).code = 400

\* C2: with no credential configured, every answered request with a valid
\* prompt got HTTP 500 with a configuration-related detail and made no
\* provider call; GET /health still answers and reports api_configured false.
C2_NoCredentialGives500WithoutProviderCall ==
    ~Configured =>
        /\ \A r \in Requests :
            /\ calls[r] = <<>>
            /\ pc[r] # "calling"
            /\ Done(r) /\ ValidPrompt(prompt[r])
                 => /\ Answer(r).code = 500
                    /\ ConfigurationRelated(Answer(r))
                    /\ Len(response[r]) = 1
        /\ \A h \in health : h.status = "healthy" /\ h.api_configured = FALSE
        /\ ENABLED health_check

C2_Witness ==
    /\ ~Configured
    /\ health # {}
    /\ \E r \in Requests :
        Done(r) /\ ValidPrompt(prompt[r]) /\ Answer(r).code = 500

\* C3: when the provider returned a non-empty payload, the response is the
\* success envelope: status "success", video_data the data-URI prefix followed
\* by text that base64-decodes to exactly the returned bytes, original_prompt
\* the trimmed input, enhanced_prompt its enhancement, the fixed model
\* identifier, and video_size_bytes the number of returned bytes.
C3_SuccessEnvelope ==
    \A r \in Requests :
        Done(r) /\ ReturnedBytes(r) =>
            LET resp == Answer(r)
                bytes == result[r][1].value.bytes
            IN  /\ Len(response[r]) = 1
                /\ resp.code = 200
                /\ IsSuccess(resp)
                /\ HasPrefix(resp.json.video_data, DataUriPrefix)
                /\ B64Decode(SubSeq(resp.json.video_data, Len(DataUriPrefix) + 1,
                                    Len(resp.json.video_data))) = bytes
                /\ resp.json.original_prompt = TrimmedOf[prompt[r]]
                /\ resp.json.enhanced_prompt = EnhancedOf[prompt[r]]
                /\ resp.json.model_used = ModelId
                /\ resp.json.video_size_bytes = Len(bytes)

C3_Witness ==
    \E r1, r2 \in Requests :
        /\ Done(r1) /\ ReturnedBytes(r1) /\ Len(result[r1][1].value.bytes) = 3
        /\ Done(r2) /\ ReturnedBytes(r2) /\ Len(result[r2][1].value.bytes) = 2
        /\ Answer(r1).code = 200 /\ Answer(r2).code = 200
        /\ prompt[r2] # TrimmedOf[prompt[r2]]

\* C4: when the provider returned an empty or absent result, the response is
\* HTTP 500 whose detail names the empty response; a success response implies
\* the provider returned at least one byte.
C4_EmptyResultIsFailure ==
    \A r \in Requests :
        /\ Done(r) /\ ReturnedNothing(r)
             => /\ Len(response[r]) = 1
                /\ Answer(r).code = 500
                /\ IsError(Answer(r))
                /\ Contains("empty response", Answer(r).json.detail)
        /\ \A i \in 1..Len(response[r]) :
             response[r][i].code = 200 \/ IsSuccess(response[r][i]) => ReturnedBytes(r)

C4_Witness ==
    \E r1, r2 \in Requests :
        /\ Done(r1) /\ Returned(r1) /\ result[r1][1].value.absent
        /\ Done(r2) /\ Returned(r2) /\ ~result[r2][1].value.absent
        /\ result[r2][1].value.bytes = <<>>
        /\ Answer(r1).code = 500 /\ Answer(r2).code = 500

\* C5: when the provider call raised, the response is HTTP 500 whose detail is
\* the fixed prefix followed by the exception's message verbatim; the branch
\* of the diagnostic classification changes neither the status code nor the
\* shape of the body.
C5_ProviderErrorIs500Verbatim ==
    /\ \A r \in Requests :
        Done(r) /\ Raised(r) =>
            /\ Len(response[r]) = 1
            /\ Answer(r) = [code |-> 500,
                            json |-> [detail |-> "Video generation failed: "
                                                    \o result[r][1].value]]
    /\ \A r1, r2 \in Requests :
        Done(r1) /\ Raised(r1) /\ Done(r2) /\ Raised(r2) =>
            /\ Answer(r1).code = Answer(r2).code
            /\ DOMAIN Answer(r1).json = DOMAIN Answer(r2).json

C5_Witness ==
    \E r1, r2 \in Requests :
        /\ Done(r1) /\ Raised(r1) /\ logged[r1] = <<"rate limit">>
        /\ Done(r2) /\ Raised(r2) /\ logged[r2] = <<"none">>
        /\ Answer(r1).code = 500 /\ Answer(r2).code = 500

\* the categories in priority order, with their keywords, and the fallback
CategoryOrder == <<"portrait", "action", "nature", "urban">>
Categories == {"portrait", "action", "nature", "urban", "cinematic"}
KeywordsOf ==
    [portrait |-> {"person", "man", "woman", "people", "human", "character"},
     action   |-> {"run", "jump", "fast", "action", "dance", "sport", "racing"},
     nature   |-> {"forest", "ocean", "mountain", "nature", "tree", "flower", "landscape"},
     urban    |-> {"city", "street", "building", "car", "urban", "downtown"}]

Matches(c, text) == \E k \in KeywordsOf[c] : InLower(k, text)

FirstMatch(text) ==
    IF \E i \in 1..Len(CategoryOrder) : Matches(CategoryOrder[i], text)
    THEN CategoryOrder[CHOOSE i \in 1..Len(CategoryOrder) :
                           /\ Matches(CategoryOrder[i], text)
                           /\ \A j \in 1..(i - 1) : ~Matches(CategoryOrder[j], text)]
    ELSE "cinematic"

Tail2(c) == ", " \o enhancement_database[c] \o ", " \o TechnicalSuffix

\* C6: the output of enhance_prompt ends with exactly one category suffix
\* followed by the technical suffix, the category being the first in the
\* order portrait, action, nature, urban that has a keyword occurring in the
\* lower-cased prompt, and cinematic when none has; a prompt with a portrait
\* keyword gets the portrait suffix whatever else it contains.
C6_FirstMatchingCategory ==
    enhPc = "returned" =>
        /\ HasSuffix(enhOut, Tail2(FirstMatch(enhIn)))
        /\ Cardinality({c \in Categories : HasSuffix(enhOut, Tail2(c))}) = 1
        /\ Matches("portrait", enhIn) =>
             HasSuffix(enhOut,
                ", detailed facial features, realistic rendering, good lighting, clear focus, "
                    \o TechnicalSuffix)
        /\ (\A c \in DOMAIN KeywordsOf : ~Matches(c, enhIn)) =>
             HasSuffix(enhOut,
                ", cinematic lighting, professional cinematography, high quality, smooth motion, "
                    \o TechnicalSuffix)

C6_Witness ==
    /\ enhPc = "returned"
    /\ Matches("portrait", enhIn) /\ Matches("action", enhIn)
    /\ HasSuffix(enhOut, Tail2("portrait"))

\* C7: for every argument, enhance_prompt returns the trimmed argument, then
\* ", ", one category suffix, ", " and the technical suffix; the trimmed
\* argument with its casing is a prefix of the output and the technical suffix
\* is its end; every enumerated argument can be enhanced.
C7_OutputShape ==
    /\ enhPc = "returned" =>
        /\ \E c \in Categories : enhOut = Strip(enhIn) \o Tail2(c)
        /\ HasPrefix(enhOut, Strip(enhIn))
        /\ HasSuffix(enhOut, TechnicalSuffix)
        /\ Strip(enhIn) = "a spaceship in orbit" =>
             enhOut = "a spaceship in orbit, cinematic lighting, professional cinematography, high quality, smooth motion, 5 seconds duration, HD quality, smooth transitions, professional grade"
    /\ enhPc = "idle" => \A p \in EnhanceInputs : ENABLED EnhanceCall(p)

C7_Witness ==
    /\ enhPc = "returned"
    /\ enhIn # Strip(enhIn)
    /\ Strip(enhIn) = "a spaceship in orbit"
    /\ HasPrefix(enhOut, "a spaceship in orbit, cinematic")

\* C8: a request invokes the provider at most once, a finished request has
\* exactly one response, which is either the success envelope or an error
\* body, and nothing further happens for a finished request: no second
\* provider call and no second response.
C8_StateInv ==
    \A r \in Requests :
        /\ Len(calls[r]) <= 1
        /\ pc[r] = "done" =>
             /\ Len(response[r]) = 1
             /\ IsError(response[r][1]) # IsSuccess(response[r][1])
        /\ pc[r] # "done" => response[r] = <<>>

C8_Terminal ==
    \A r \in Requests :
        /\ pc[r] = "done" =>
             \/ pc'[r] = "done" /\ calls'[r] = calls[r] /\ response'[r] = response[r]
             \/ pc'[r] = "idle" /\ calls'[r] = <<>> /\ response'[r] = <<>>
        /\ pc[r] = "calling" /\ pc'[r] # "calling" =>
             pc'[r] = "done" /\ calls'[r] = calls[r] /\ Len(response'[r]) = 1

C8_NoRetriesOneResponse == [](C8_StateInv) /\ [][C8_Terminal]_vars

C8_Witness ==
    \E r \in Requests :
        /\ Done(r) /\ Raised(r)
        /\ Len(calls[r]) = 1
        /\ Answer(r).code = 500

\* the response request r gets when it runs alone with prompt p and provider
\* outcome res
AloneResponse(p, res) ==
    LET e == EntryOf[HF_TOKEN, client, p]
    IN  IF e.kind = "respond" THEN e.response
        ELSE IF res[1].kind = "return"
             THEN AfterReturn(e.original_prompt, e.enhanced_prompt, res[1].value).response
             ELSE AfterRaise(res[1].value).response

\* C9: under any interleaving of requests, the credential and the client keep
\* their startup values, and each finished request's response is the one that
\* request would get alone from its own prompt and its own provider result.
C9_RequestsIndependent ==
    /\ [](\A r \in Requests :
            pc[r] = "done" => response[r] = <<AloneResponse(prompt[r], result[r])>>)
    /\ [][HF_TOKEN' = HF_TOKEN /\ client' = client]_vars

C9_Witness ==
    \E r1, r2 \in Requests :
        /\ r1 # r2
        /\ pc[r1] = "calling" /\ Done(r2) /\ Len(calls[r2]) = 1
        /\ prompt[r1] # prompt[r2]
        /\ ReturnedBytes(r2) /\ Answer(r2).code = 200

\* C10: whenever the provider has been invoked for a request, a credential is
\* configured, the prompt has trimmed length at least 3 and raw length at most
\* 200, the text passed is the enhancement of the trimmed prompt and the model
\* is the fixed identifier; a success response reports as enhanced_prompt the
\* text that was passed; prompts of trimmed length 3 and raw length 200 reach
\* the provider when the credential and the client are there.
C10_ProviderCalledOnlyAfterChecks ==
    \A r \in Requests :
        /\ \A i \in 1..Len(calls[r]) :
             /\ Configured
             /\ Len(TrimmedOf[prompt[r]]) >= 3
             /\ Len(prompt[r]) <= 200
             /\ calls[r][i].text = EnhancedOf[prompt[r]]
             /\ calls[r][i].model = ModelId
        /\ Done(r) /\ IsSuccess(Answer(r)) =>
             Len(calls[r]) = 1 /\ Answer(r).json.enhanced_prompt = calls[r][1].text
        /\ pc[r] # "idle" /\ Configured /\ client /\ ValidPrompt(prompt[r]) =>
             Len(calls[r]) = 1

C10_Witness ==
    \E r1, r2 \in Requests :
        /\ Len(calls[r1]) = 1 /\ Len(prompt[r1]) = 200
        /\ Len(calls[r2]) = 1 /\ prompt[r2] = "abc"
        /\ Done(r2) /\ IsSuccess(Answer(r2))

=============================================================================
